---- MODULE Spec2Model ----
(***************************************************************************)
(* Model of longkai/s3fs: the lazy ranged object reader (obj.go), the two  *)
(* entry points that build it (s3.go: OpenWithContext and                  *)
(* ReadFileWithContext) and the object store it talks to.                  *)
(*                                                                         *)
(* The reader never inspects the bytes it copies, so an object's content   *)
(* is modelled by bytes that name their own version and position: byte     *)
(* 10*v + i is position i of the v-th upload.  Any reordering, gap,        *)
(* duplication or mixing of versions is therefore visible.                 *)
(*                                                                         *)
(* HTTP header texts (Range, Content-Range) are sequences of one-character *)
(* strings, formatted and parsed as the code and the store do it.          *)
(***************************************************************************)
EXTENDS Integers, Sequences, FiniteSets, TLC

\* ------------------------------------------------------------------ bounds

MaxLen == 3      \* longest object the store holds
MaxChunk == 2    \* largest configured chunk size (WithBufferSize)
MaxRead == 2     \* largest destination slice handed to Read
MaxMod == 2      \* number of uploads (each has its own last-modified time)
MaxFaults == 1   \* number of requests that meet a fault in one run
MaxSeek == MaxLen + 1   \* furthest position Seek is asked for
MaxTotal == 11   \* largest total of a Content-Range value

\* ----------------------------------------------------------------- helpers

Min(a, b) == IF a < b THEN a ELSE b

Nil == "nil"
EOF == "EOF"

\* time.Time{} (the zero time) of a fresh object; store timestamps are >= 1.
ZeroTime == 0

\* io.SeekStart, io.SeekCurrent, io.SeekEnd
SeekStart == 0
SeekCurrent == 1
SeekEnd == 2

\* ------------------------------------------------------------ header texts

Digits == <<"0", "1", "2", "3", "4", "5", "6", "7", "8", "9">>

IsDigit(c) == \E d \in 1..10 : Digits[d] = c

DigitVal(c) == (CHOOSE d \in 1..10 : Digits[d] = c) - 1

\* %d of fmt.Sprintf
RECURSIVE Itoa(_)
Itoa(n) ==
  IF n < 0 THEN <<"-">> \o Itoa(0 - n)
  ELSE IF n < 10 THEN <<Digits[n + 1]>>
  ELSE Itoa(n \div 10) \o <<Digits[(n % 10) + 1]>>

\* first position >= i of s that holds no space (Len(s)+1 at the end)
RECURSIVE SkipSpace(_, _)
SkipSpace(s, i) ==
  IF i <= Len(s) /\ s[i] = " " THEN SkipSpace(s, i + 1) ELSE i

\* first position >= i of s that holds neither a digit nor an underscore
\* (the characters Sscanf takes into the token of a %d)
RECURSIVE SkipDigits(_, _)
SkipDigits(s, i) ==
  IF i <= Len(s) /\ (IsDigit(s[i]) \/ s[i] = "_") THEN SkipDigits(s, i + 1) ELSE i

\* value of the decimal digits s[i..j]
RECURSIVE Atoi(_, _, _)
Atoi(s, i, j) ==
  IF j < i THEN 0 ELSE 10 * Atoi(s, i, j - 1) + DigitVal(s[j])

\* fmt.Sscanf works through its format verb by verb and stops at the first
\* one that does not match; the values scanned so far are kept.  A scan is
\* [ok, next, vals]: whether every verb so far matched, the next position of
\* the input, and the integers scanned.
ScanStart == [ok |-> TRUE, next |-> 1, vals |-> <<>>]

\* the token of a %d, s[b..c-1]; neg: a minus sign came before it.  The
\* token must not be empty, and its conversion fails on an underscore.
ScanDigits(st, s, b, c, neg) ==
  IF c = b \/ \E k \in b..(c - 1) : s[k] = "_"
    THEN [st EXCEPT !.ok = FALSE, !.next = b]
  ELSE [st EXCEPT !.next = c,
                  !.vals = Append(@, IF neg THEN 0 - Atoi(s, b, c - 1)
                                     ELSE Atoi(s, b, c - 1))]

\* the optional sign of a %d at position a, then its digits
ScanSign(st, s, a) ==
  IF a <= Len(s) /\ s[a] \in {"+", "-"}
  THEN ScanDigits(st, s, a + 1, SkipDigits(s, a + 1), s[a] = "-")
  ELSE ScanDigits(st, s, a, SkipDigits(s, a), FALSE)

\* the %d verb: skip spaces, an optional sign, then at least one digit
ScanInt(st, s) ==
  IF ~st.ok THEN st ELSE ScanSign(st, s, SkipSpace(s, st.next))

\* literal text of a format: every character must match
ScanLit(st, s, lit) ==
  IF ~st.ok THEN st
  ELSE IF /\ st.next + Len(lit) - 1 <= Len(s)
          /\ \A k \in 1..Len(lit) : s[st.next + k - 1] = lit[k]
    THEN [st EXCEPT !.next = @ + Len(lit)]
  ELSE [st EXCEPT !.ok = FALSE]

\* a space of a format: one or more spaces of input, or its end
ScanSpace(st, s) ==
  IF ~st.ok \/ st.next > Len(s) THEN st
  ELSE IF s[st.next] = " " THEN [st EXCEPT !.next = SkipSpace(s, @)]
  ELSE [st EXCEPT !.ok = FALSE]

\* the input must end here (the store's parser of Range, not Sscanf)
ScanEnd(st, s) ==
  IF st.ok /\ st.next # Len(s) + 1 THEN [st EXCEPT !.ok = FALSE] ELSE st

\* the k-th integer of a scan, 0 when the scan did not get that far
ScanVal(st, k) == IF k <= Len(st.vals) THEN st.vals[k] ELSE 0

\* a nil *string (no header in the message); no text is equal to it
NoHeader == <<"nil">>

\* fmt.Sscanf(s, "bytes %d-%d/%d", &start, &end, &total)
SscanfContentRange(s) ==
  ScanInt(ScanLit(ScanInt(ScanLit(ScanInt(ScanSpace(ScanLit(ScanStart,
    s, <<"b", "y", "t", "e", "s">>), s), s), s, <<"-">>), s), s, <<"/">>), s)

\* the named results of parseContentRange after the scan st
ContentRange(st) ==
  [start |-> ScanVal(st, 1), end |-> ScanVal(st, 2), total |-> ScanVal(st, 3),
   ok |-> st.ok]

parseContentRange(s) ==
  IF s = NoHeader THEN [start |-> 0, end |-> 0, total |-> 0, ok |-> FALSE]
  ELSE ContentRange(SscanfContentRange(s))

\* -------------------------------------------------------------- the store

\* content of the v-th upload when it is len bytes long
Content(v, len) == [i \in 1..len |-> 10 * v + i]

\* the store before any upload; mod counts the uploads so far and is the
\* last-modified time of the object
NoObject == [exists |-> FALSE, data |-> <<>>, mod |-> ZeroTime]

Uploads(remote) == remote.mod

\* What can go wrong with one request besides what the store decides:
\* request: "transport": the request fails (network, auth); "canceled": the
\* context the request is made under is done; drain: the body stream
\* fails after delivering that many bytes (-1: it does not fail); header:
\* how a ranged request is answered: "ok"; "star": with a Content-Range of
\* unknown total, "bytes first-last/*"; "ignored": the Range header is not
\* honoured, the answer is the whole object without Content-Range.
NoFault == [request |-> "ok", drain |-> -1, header |-> "ok"]

Transport == [NoFault EXCEPT !.request = "transport"]

Canceled == [NoFault EXCEPT !.request = "canceled"]

\* faults of a request without Range (its answer has no Content-Range)
\* (the body fails before its first byte, or after it)
FullFaults == {NoFault, Transport} \cup {[NoFault EXCEPT !.drain = k] : k \in {0, 1}}

\* faults of a ranged request
Faults == FullFaults \cup {[NoFault EXCEPT !.header = h] : h \in {"ignored", "star"}}

\* A request made under a context that is done is canceled, whatever else
\* could have happened to it.
Under(done, f) == IF done THEN Canceled ELSE f

\* the Range header the store understands: "bytes=first-last"
ScanRange(h) ==
  ScanEnd(ScanInt(ScanLit(ScanInt(ScanLit(ScanStart,
    h, <<"b", "y", "t", "e", "s", "=">>), h), h, <<"-">>), h), h)

\* Content-Range of a 206 answer: "bytes first-last/total", or with an
\* unknown total "bytes first-last/*"
FormatContentRange(first, last, total, how) ==
  <<"b", "y", "t", "e", "s", " ">> \o Itoa(first) \o <<"-">> \o Itoa(last)
    \o <<"/">> \o (IF how = "star" THEN <<"*">> ELSE Itoa(total))

NoRsp == [body |-> [data |-> <<>>, failAfter |-> -1], contentLength |-> 0,
          contentRange |-> NoHeader, lastModified |-> ZeroTime]

\* The answer to a request with Range header range, scanned as r, for an
\* object that exists: 206 with the part asked for, clipped to the object,
\* or 416 when the range starts beyond its end.
S3GetRange(remote, range, r, f) ==
  LET len == Len(remote.data)
      first == ScanVal(r, 1)
      last == Min(ScanVal(r, 2), len - 1)
  IN  IF ~r.ok \/ first >= len \/ ScanVal(r, 2) < first
      THEN [rsp |-> NoRsp, err |-> "InvalidRange", range |-> range]
      ELSE [rsp |-> [body |-> [data |-> SubSeq(remote.data, first + 1, last + 1),
                               failAfter |-> f.drain],
                     contentLength |-> last - first + 1,
                     contentRange |-> FormatContentRange(first, last, len, f.header),
                     lastModified |-> remote.mod],
            err |-> Nil, range |-> range]

\* The answer to GetObject(key, Range) made under the reader's context;
\* range is the Range header of the request, kept for the log.
S3GetObject(remote, range, f) ==
  IF f.request = "canceled"
    THEN [rsp |-> NoRsp, err |-> "Canceled", range |-> range]
  ELSE IF f.request = "transport"
    THEN [rsp |-> NoRsp, err |-> "Transport", range |-> range]
  ELSE IF ~remote.exists
    THEN [rsp |-> NoRsp, err |-> "NoSuchKey", range |-> range]
  ELSE IF range = NoHeader \/ f.header = "ignored"
    THEN [rsp |-> [body |-> [data |-> remote.data, failAfter |-> f.drain],
                   contentLength |-> Len(remote.data),
                   contentRange |-> NoHeader,
                   lastModified |-> remote.mod],
          err |-> Nil, range |-> range]
  ELSE S3GetRange(remote, range, ScanRange(range), f)

\* s3Client.getObject
getObject(remote, offset, count, f) ==
  S3GetObject(remote,
              IF offset > -1
              THEN <<"b", "y", "t", "e", "s", "=">> \o Itoa(offset) \o <<"-">> \o Itoa(count)
              ELSE NoHeader,
              f)

\* The Range header a DownloadStream request with the HTTPRange range
\* carries: none for the zero range, "bytes=Offset-" for Count 0, else
\* "bytes=Offset-(Offset+Count-1)".
BlobRange(range) ==
  IF range.Offset = 0 /\ range.Count = 0 THEN NoHeader
  ELSE IF range.Count = 0
    THEN <<"b", "y", "t", "e", "s", "=">> \o Itoa(range.Offset) \o <<"-">>
  ELSE <<"b", "y", "t", "e", "s", "=">> \o Itoa(range.Offset)
         \o <<"-">> \o Itoa(range.Offset + range.Count - 1)

\* The answer of the blob store to DownloadStream with the HTTPRange range,
\* under the reader's context.  The zero HTTPRange asks for the whole blob;
\* Count 0 with an Offset asks for everything from Offset on; otherwise
\* Count bytes from Offset on are asked for.  The Range header the request
\* carries is kept for the log.
BlobDownloadStream(remote, range, f) ==
  IF f.request = "canceled"
    THEN [rsp |-> NoRsp, err |-> "Canceled", range |-> BlobRange(range)]
  ELSE IF f.request = "transport"
    THEN [rsp |-> NoRsp, err |-> "Transport", range |-> BlobRange(range)]
  ELSE IF ~remote.exists
    THEN [rsp |-> NoRsp, err |-> "NoSuchKey", range |-> BlobRange(range)]
  ELSE IF (range.Offset = 0 /\ range.Count = 0) \/ f.header = "ignored"
    THEN [rsp |-> [body |-> [data |-> remote.data, failAfter |-> f.drain],
                   contentLength |-> Len(remote.data),
                   contentRange |-> NoHeader,
                   lastModified |-> remote.mod],
          err |-> Nil, range |-> BlobRange(range)]
  ELSE S3GetRange(remote, BlobRange(range),
                  [ok |-> TRUE, next |-> 0,
                   vals |-> <<range.Offset,
                              IF range.Count = 0 THEN Len(remote.data) - 1
                              ELSE range.Offset + range.Count - 1>>],
                  f)

\* blobClient.getObject
blobGetObject(remote, offset, count, f) ==
  BlobDownloadStream(remote,
                     IF offset > -1 THEN [Offset |-> offset, Count |-> count]
                     ELSE [Offset |-> 0, Count |-> 0],
                     f)

\* obj.client.getObject: the adapter the reader was built over
clientGetObject(client, remote, offset, count, f) ==
  IF client = "blob" THEN blobGetObject(remote, offset, count, f)
  ELSE getObject(remote, offset, count, f)

\* io.Copy(&obj.buf, rsp.body): what was read before an error stays appended
ioCopy(buf, body) ==
  IF body.failAfter = -1
  THEN [buf |-> buf \o body.data, err |-> Nil]
  ELSE [buf |-> buf \o SubSeq(body.data, 1, Min(body.failAfter, Len(body.data))),
        err |-> "Drain"]

\* One entry of the log of calls to client.getObject: its arguments, the
\* Range header it sent, and what came back.
Fetch(offset, count, r) ==
  [offset |-> offset, count |-> count, range |-> r.range, err |-> r.err,
   lastModified |-> r.rsp.lastModified, contentRange |-> r.rsp.contentRange]

\* ------------------------------------------------------------- the reader

\* &object{ctx: ctx, client: ..., bufLen: a.bufLen, name: name}
NewObject(client, bufLen) ==
  [client |-> client, buf |-> <<>>, bufLen |-> bufLen, dlOffset |-> 0, size |-> 0,
   modTime |-> ZeroTime, rOffset |-> 0, completelyLoaded |-> FALSE]

\* Seek storing the new offset before it is validated
Seek_AssignFirst(o, offset, whence) ==
  LET newOffset == IF whence = SeekStart THEN offset
                   ELSE IF whence = SeekCurrent THEN o.rOffset + offset
                   ELSE o.size + offset
      o1 == [o EXCEPT !.rOffset = newOffset]
  IN  IF whence \notin {SeekStart, SeekCurrent, SeekEnd}
      THEN [obj |-> o1, ret |-> 0, err |-> "InvalidWhence"]
      ELSE IF newOffset < 0
      THEN [obj |-> o1, ret |-> 0, err |-> "NegativePosition"]
      ELSE [obj |-> o1, ret |-> newOffset, err |-> Nil]

\* Seek refusing a position beyond the end of the object
Seek_WithinSize(o, offset, whence) ==
  LET newOffset == IF whence = SeekStart THEN offset
                   ELSE IF whence = SeekCurrent THEN o.rOffset + offset
                   ELSE o.size + offset
  IN  IF whence \notin {SeekStart, SeekCurrent, SeekEnd}
      THEN [obj |-> o, ret |-> 0, err |-> "InvalidWhence"]
      ELSE IF newOffset < 0 \/ newOffset > o.size
      THEN [obj |-> o, ret |-> 0, err |-> "NegativePosition"]
      ELSE [obj |-> [o EXCEPT !.rOffset = newOffset], ret |-> newOffset, err |-> Nil]

\* object.Seek
Seek(o, offset, whence) ==
  LET newOffset == IF whence = SeekStart THEN offset
                   ELSE IF whence = SeekCurrent THEN o.rOffset + offset
                   ELSE o.size + offset
  IN  IF whence \notin {SeekStart, SeekCurrent, SeekEnd}
      THEN [obj |-> o, ret |-> 0, err |-> "InvalidWhence"]
      ELSE IF newOffset < 0
      THEN [obj |-> o, ret |-> 0, err |-> "NegativePosition"]
      ELSE [obj |-> [o EXCEPT !.rOffset = newOffset], ret |-> newOffset, err |-> Nil]

\* object.parseFullResponse
parseFullResponse(o, rsp) ==
  IF o.modTime # ZeroTime /\ o.modTime # rsp.lastModified
  THEN [obj |-> o, err |-> "LastModifiedChanged"]
  ELSE
    LET cp == ioCopy(o.buf, rsp.body)
        o1 == [o EXCEPT !.modTime = rsp.lastModified, !.buf = cp.buf]
    IN  IF cp.err # Nil THEN [obj |-> o1, err |-> cp.err]
        ELSE [obj |-> [o1 EXCEPT !.size = rsp.contentLength,
                                 !.completelyLoaded = TRUE],
              err |-> Nil]

\* the result of a fetch: what parsing its answer gave, and the log
Fetched(p, log) == [obj |-> p.obj, err |-> p.err, fetches |-> log]

\* object.dl once the answer r to its request is there
dlResponse(o, r) ==
  IF r.err # Nil THEN [obj |-> o, err |-> r.err, fetches |-> <<Fetch(-1, 0, r)>>]
  ELSE Fetched(parseFullResponse(o, r.rsp), <<Fetch(-1, 0, r)>>)

\* object.dl
dl(o, remote, f) == dlResponse(o, clientGetObject(o.client, remote, -1, 0, f))

\* parsePartialResponse taking the inclusive end for the download offset
parsePartialResponse_EndExclusive(o, rsp) ==
  LET cp == ioCopy(o.buf, rsp.body)
      o1 == [o EXCEPT !.modTime = rsp.lastModified, !.buf = cp.buf]
      cr == parseContentRange(rsp.contentRange)
  IN  IF cp.err # Nil THEN [obj |-> o1, err |-> cp.err]
      ELSE IF ~cr.ok THEN [obj |-> o1, err |-> "ParseContentRange"]
      ELSE [obj |-> [o1 EXCEPT !.size = cr.total,
                               !.dlOffset = cr.end,
                               !.completelyLoaded = (cr.end = cr.total - 1)],
            err |-> Nil]

\* parsePartialResponse taking the bytes downloaded so far for the size
parsePartialResponse_SizeDownloaded(o, rsp) ==
  LET cp == ioCopy(o.buf, rsp.body)
      o1 == [o EXCEPT !.modTime = rsp.lastModified, !.buf = cp.buf]
      cr == parseContentRange(rsp.contentRange)
  IN  IF cp.err # Nil THEN [obj |-> o1, err |-> cp.err]
      ELSE IF ~cr.ok THEN [obj |-> o1, err |-> "ParseContentRange"]
      ELSE [obj |-> [o1 EXCEPT !.size = cr.end + 1,
                               !.dlOffset = cr.end + 1,
                               !.completelyLoaded = (cr.end = cr.total - 1)],
            err |-> Nil]

\* object.parsePartialResponse
parsePartialResponse(o, rsp) ==
  LET cp == ioCopy(o.buf, rsp.body)
      o1 == [o EXCEPT !.modTime = rsp.lastModified, !.buf = cp.buf]
      cr == parseContentRange(rsp.contentRange)
  IN  IF cp.err # Nil THEN [obj |-> o1, err |-> cp.err]
      ELSE IF ~cr.ok THEN [obj |-> o1, err |-> "ParseContentRange"]
      ELSE [obj |-> [o1 EXCEPT !.size = cr.total,
                               !.dlOffset = cr.end + 1,
                               !.completelyLoaded = (cr.end = cr.total - 1)],
            err |-> Nil]

\* fillChunk goes on with dl(): where the handler stands, not an error it
\* returns
ToDl == "dl"

\* object.fillChunk once the answer r to its ranged request is there: up
\* to its return, or to its call of dl(), a second request
fillChunkResponse(o, end, r) ==
  IF r.err # Nil
  THEN IF o.dlOffset = 0
       THEN [obj |-> o, err |-> ToDl, fetches |-> <<Fetch(o.dlOffset, end, r)>>]
       ELSE [obj |-> o, err |-> r.err, fetches |-> <<Fetch(o.dlOffset, end, r)>>]
  ELSE Fetched(parsePartialResponse(o, r.rsp), <<Fetch(o.dlOffset, end, r)>>)

\* the ranged request of fillChunk, from the download offset to end
fillChunkRange(o, end, remote, f) ==
  fillChunkResponse(o, end, clientGetObject(o.client, remote, o.dlOffset, end, f))

\* fillChunk making a ranged request also when the chunk size is 0
fillChunk_AlwaysRanged(o, full, remote, f) ==
  fillChunkRange(o, IF full THEN o.size - 1 ELSE o.dlOffset + o.bufLen - 1,
                 remote, f)

\* object.fillChunk up to its return or to its call of dl() after a failed
\* ranged request; f is the fault of its request
fillChunk(o, full, remote, f) ==
  IF o.bufLen = 0 THEN dl(o, remote, f)
  ELSE fillChunkRange(o, IF full THEN o.size - 1 ELSE o.dlOffset + o.bufLen - 1,
                      remote, f)

\* no fetch was needed
NoFetch(o) == [obj |-> o, err |-> Nil, fetches |-> <<>>]

\* the end of Read leaving the read offset where it was
ReadBuffer_KeepOffset(n, fc) ==
  IF fc.err # Nil
    THEN [obj |-> fc.obj, cnt |-> 0, data |-> <<>>, err |-> fc.err,
          fetches |-> fc.fetches]
  ELSE IF fc.obj.rOffset > Len(fc.obj.buf)
    THEN [obj |-> fc.obj, cnt |-> 0, data |-> <<>>, err |-> "panic",
          fetches |-> fc.fetches]
  ELSE
    LET cnt == Min(n, Len(fc.obj.buf) - fc.obj.rOffset)
    IN  [obj |-> fc.obj,
         cnt |-> cnt,
         data |-> SubSeq(fc.obj.buf, fc.obj.rOffset + 1, fc.obj.rOffset + cnt),
         err |-> Nil,
         fetches |-> fc.fetches]

\* The end of object.Read, after its fetch fc (if it made one): the error of
\* the fetch, or the copy of min(n, what is buffered) bytes to the caller.
\* Slicing the buffer at an offset beyond its length is a run-time panic.
ReadBuffer(n, fc) ==
  IF fc.err # Nil
    THEN [obj |-> fc.obj, cnt |-> 0, data |-> <<>>, err |-> fc.err,
          fetches |-> fc.fetches]
  ELSE IF fc.obj.rOffset > Len(fc.obj.buf)
    THEN [obj |-> fc.obj, cnt |-> 0, data |-> <<>>, err |-> "panic",
          fetches |-> fc.fetches]
  ELSE
    LET cnt == Min(n, Len(fc.obj.buf) - fc.obj.rOffset)
    IN  [obj |-> [fc.obj EXCEPT !.rOffset = @ + cnt],
         cnt |-> cnt,
         data |-> SubSeq(fc.obj.buf, fc.obj.rOffset + 1, fc.obj.rOffset + cnt),
         err |-> Nil,
         fetches |-> fc.fetches]

\* Read fetching only the next chunk after a forward seek
Read_ChunkAfterSeek(o, n, remote, f) ==
  IF o.rOffset >= o.size
    THEN [obj |-> o, cnt |-> 0, data |-> <<>>, err |-> EOF, fetches |-> <<>>]
  ELSE ReadBuffer(n,
         IF o.completelyLoaded THEN NoFetch(o)
         ELSE IF o.rOffset > o.dlOffset THEN fillChunk(o, FALSE, remote, f)
         ELSE IF Len(o.buf) - o.rOffset < n THEN fillChunk(o, FALSE, remote, f)
         ELSE NoFetch(o))

\* Read deciding on a fetch without looking at the complete flag
Read_IgnoreComplete(o, n, remote, f) ==
  IF o.rOffset >= o.size
    THEN [obj |-> o, cnt |-> 0, data |-> <<>>, err |-> EOF, fetches |-> <<>>]
  ELSE ReadBuffer(n,
         IF o.rOffset > o.dlOffset THEN fillChunk(o, TRUE, remote, f)
         ELSE IF Len(o.buf) - o.rOffset < n THEN fillChunk(o, FALSE, remote, f)
         ELSE NoFetch(o))

\* object.Read with a destination of n bytes
Read(o, n, remote, f) ==
  IF o.rOffset >= o.size
    THEN [obj |-> o, cnt |-> 0, data |-> <<>>, err |-> EOF, fetches |-> <<>>]
  ELSE ReadBuffer(n,
         IF o.completelyLoaded THEN NoFetch(o)
         ELSE IF o.rOffset > o.dlOffset THEN fillChunk(o, TRUE, remote, f)
         ELSE IF Len(o.buf) - o.rOffset < n THEN fillChunk(o, FALSE, remote, f)
         ELSE NoFetch(o))

\* awsS3.OpenWithContext (client "s3") and azBlobFs.OpenWithContext (client
\* "blob"), up to the return or to the call of dl()
OpenWithContext(client, bufLen, remote, f) ==
  fillChunk(NewObject(client, bufLen), FALSE, remote, f)

\* what ReadFileWithContext returns after its fetch d: obj.buf.Bytes(), or
\* the error
Bytes(d) ==
  [data |-> IF d.err # Nil THEN <<>> ELSE d.obj.buf,
   err |-> d.err, fetches |-> d.fetches]

\* ReadFile going through the chunked first fetch of Open
ReadFileWithContext_Chunked(client, bufLen, remote, f) ==
  Bytes(fillChunk(NewObject(client, bufLen), FALSE, remote, f))

\* awsS3.ReadFileWithContext and azBlobFs.ReadFileWithContext
ReadFileWithContext(client, bufLen, remote, f) ==
  Bytes(dl(NewObject(client, bufLen), remote, f))

\* ------------------------------------------------------------------ state

VARIABLES
  remote,   \* the object under the key in the store: [exists, data, mod]
  obj,      \* the object (reader) that Open returns; a run follows one
            \* reader, since readers share no state
  phase,    \* "none": not opened yet; "opening", "reading": the fillChunk of
            \* Open or Read is about to call dl() after its ranged request
            \* failed; "opened"; "failed": Open returned an error;
            \* "crashed": Read panicked
  call,     \* the last call of the caller, its arguments, results and the
            \* requests it made to the store
  faults,   \* number of requests that met a fault so far
  hist,     \* history of the open reader: out: bytes returned by Read since
            \* the last successful Seek (or Open); base: where that Seek went;
            \* clean: no call on the reader failed and the stored object was
            \* not touched since Open
  ctxDone   \* the context given to OpenWithContext is done (canceled or
            \* past its deadline); it stays done

vars == <<remote, obj, phase, call, faults, hist, ctxDone>>

\* number of faults of a request
Count(f) == IF f = NoFault THEN 0 ELSE 1

\* the run's budget of faults covers the request; under a context that is
\* done there is nothing left to go wrong
Affordable(f) ==
  /\ faults + Count(f) <= MaxFaults
  /\ ctxDone => f = NoFault

\* the fault belongs to a request that was made
Admitted(f, fetches) == Len(fetches) < 1 => f = NoFault

\* the two file systems: awsS3 and azBlobFs
Clients == {"s3", "blob"}

\* the handler stands between its two requests
Pending == phase \in {"opening", "reading"}

ChunkSizes == 0..MaxChunk

\* The (offset, whence) pairs Seek is called with: every absolute position,
\* short moves from the current position and from the end, and a whence
\* that is none of the three modes.
SeekArgs ==
  {<<k, SeekStart>> : k \in -1..MaxSeek}
    \cup {<<k, w>> : k \in -2..1, w \in {SeekCurrent, SeekEnd}}
    \cup {<<0, 3>>}

NoCall == [op |-> "none", n |-> 0, err |-> Nil, cnt |-> 0, data |-> <<>>,
           ret |-> 0, fetches |-> <<>>]

\* the history is kept only while it is clean
Dirty == [out |-> <<>>, base |-> 0, clean |-> FALSE]

\* The store when the run begins: the key was never uploaded, or its first
\* upload is there.
Init ==
  /\ remote \in {NoObject}
        \cup {[exists |-> TRUE, data |-> Content(1, len), mod |-> 1] : len \in 0..MaxLen}
  /\ obj = NewObject("s3", 0)
  /\ phase = "none"
  /\ call = NoCall
  /\ faults = 0
  /\ hist = Dirty
  /\ ctxDone = FALSE

\* FS.Put: upload len bytes under the key (by the caller or by anyone else;
\* a handler between its two requests stays where it is)
CallPut(len) ==
  /\ Uploads(remote) < MaxMod
  /\ remote' = [exists |-> TRUE, data |-> Content(Uploads(remote) + 1, len),
                mod |-> Uploads(remote) + 1]
  /\ call' = IF Pending THEN call ELSE [NoCall EXCEPT !.op = "Put", !.n = len]
  /\ hist' = Dirty
  /\ UNCHANGED <<obj, phase, faults, ctxDone>>

\* FS.Delete
CallDelete ==
  /\ remote.exists
  /\ remote' = [remote EXCEPT !.exists = FALSE, !.data = <<>>]
  /\ call' = IF Pending THEN call ELSE [NoCall EXCEPT !.op = "Delete"]
  /\ hist' = Dirty
  /\ UNCHANGED <<obj, phase, faults, ctxDone>>

\* the context of the reader is canceled or its deadline passes
CancelCtx ==
  /\ ~ctxDone
  /\ phase \notin {"failed", "crashed"}
  /\ ctxDone' = TRUE
  /\ call' = IF Pending THEN call ELSE [NoCall EXCEPT !.op = "Cancel"]
  /\ UNCHANGED <<remote, obj, phase, faults, hist>>

\* OpenWithContext returns the reader and the error r.err of its fillChunk
ReturnOpen(c, r) ==
  /\ obj' = r.obj
  /\ phase' = IF r.err = Nil THEN "opened" ELSE "failed"
  /\ call' = [NoCall EXCEPT !.op = "Open", !.n = c, !.err = r.err,
                            !.fetches = r.fetches]
  /\ hist' = [Dirty EXCEPT !.clean = (r.err = Nil)]

\* Read returns r
ReturnRead(n, r) ==
  /\ obj' = r.obj
  /\ phase' = IF r.err = "panic" THEN "crashed" ELSE "opened"
  /\ call' = [NoCall EXCEPT !.op = "Read", !.n = n, !.err = r.err,
                            !.cnt = r.cnt, !.data = r.data,
                            !.fetches = r.fetches]
  /\ hist' = IF hist.clean /\ r.err \in {Nil, EOF}
             THEN [hist EXCEPT !.out = hist.out \o r.data]
             ELSE Dirty

\* The ranged request of fillChunk failed at download offset 0: the handler
\* (to: "opening" or "reading", called with n) is about to call dl().
Pause(to, n, r) ==
  /\ obj' = r.obj
  /\ phase' = to
  /\ call' = [NoCall EXCEPT !.op = "fillChunk", !.n = n, !.fetches = r.fetches]
  /\ hist' = hist

\* FS.OpenWithContext on a file system with chunk size c, up to its return
\* or to the second request of its fillChunk
CallOpen(client, c, f) ==
  /\ phase = "none"
  /\ Affordable(f)
  /\ \E r \in {OpenWithContext(client, c, remote, Under(ctxDone, f))} :
      /\ Admitted(f, r.fetches)
      /\ faults' = faults + Count(f)
      /\ IF r.err = ToDl THEN Pause("opening", c, r) ELSE ReturnOpen(c, r)
      /\ UNCHANGED <<remote, ctxDone>>

\* file.Read(b) with len(b) = n, up to its return or to the second request
\* of its fillChunk
CallRead(n, f) ==
  /\ phase = "opened"
  /\ Affordable(f)
  /\ \E r \in {Read(obj, n, remote, Under(ctxDone, f))} :
      /\ Admitted(f, r.fetches)
      /\ faults' = faults + Count(f)
      /\ IF r.err = ToDl THEN Pause("reading", n, r) ELSE ReturnRead(n, r)
      /\ UNCHANGED <<remote, ctxDone>>

\* The rest of a fillChunk whose ranged request failed at download offset
\* 0: dl(), a request for the whole object, and the return of the Open or
\* Read that called fillChunk.
FallbackDl(f) ==
  /\ Pending
  /\ Affordable(f)
  /\ \E d \in {dl(obj, remote, Under(ctxDone, f))} :
      /\ faults' = faults + Count(f)
      /\ IF phase = "opening"
         THEN ReturnOpen(call.n, [d EXCEPT !.fetches = call.fetches \o @])
         ELSE ReturnRead(call.n,
                         ReadBuffer(call.n, [d EXCEPT !.fetches = call.fetches \o @]))
      /\ UNCHANGED <<remote, ctxDone>>

\* file.(io.Seeker).Seek(offset, whence)
CallSeek(offset, whence) ==
  /\ phase = "opened"
  /\ \E r \in {Seek(obj, offset, whence)} :
      /\ r.obj.rOffset <= MaxSeek
      /\ obj' = r.obj
      /\ call' = [NoCall EXCEPT !.op = "Seek", !.err = r.err, !.ret = r.ret]
      /\ hist' = IF r.err # Nil \/ ~hist.clean THEN hist
                 ELSE [hist EXCEPT !.out = <<>>, !.base = r.ret]
      /\ UNCHANGED <<remote, phase, faults, ctxDone>>

\* FS.ReadFileWithContext on a file system configured with chunk size c;
\* done: the context given to the call is done
CallReadFile(client, c, done, f) ==
  /\ faults + Count(f) <= MaxFaults
  /\ done => f = NoFault
  /\ \E r \in {ReadFileWithContext(client, c, remote, Under(done, f))} :
      /\ faults' = faults + Count(f)
      /\ call' = [NoCall EXCEPT !.op = "ReadFile", !.n = c, !.err = r.err,
                                !.data = r.data, !.fetches = r.fetches]
      /\ UNCHANGED <<remote, obj, phase, hist, ctxDone>>

\* Uploads and deletions before Open are summed up by Init.
Next ==
  \/ \E len \in 0..MaxLen : phase # "none" /\ CallPut(len)
  \/ phase # "none" /\ CallDelete
  \/ CancelCtx
  \/ \E client \in Clients, c \in ChunkSizes, f \in Faults : CallOpen(client, c, f)
  \/ \E n \in 1..MaxRead, f \in Faults : CallRead(n, f)
  \/ \E f \in FullFaults : FallbackDl(f)
  \/ \E a \in SeekArgs : CallSeek(a[1], a[2])

\* The reader: a caller opening, reading and seeking while the stored object
\* may be replaced or deleted and the reader's context may be canceled.
Spec == Init /\ [][Next]_vars

NextFile ==
  \/ \E len \in 0..MaxLen : CallPut(len)
  \/ CallDelete
  \/ \E client \in Clients, c \in ChunkSizes, done \in BOOLEAN, f \in FullFaults :
       CallReadFile(client, c, done, f)

\* Whole-object reads: ReadFile builds a reader of its own for each call, so
\* it is checked apart from the open reader.
SpecFile == Init /\ [][NextFile]_vars

\* The store holding an object one byte longer than any later upload, so
\* that an upload can replace it by one that is two bytes shorter.
InitLong ==
  /\ remote = [exists |-> TRUE, data |-> Content(1, MaxLen + 1), mod |-> 1]
  /\ obj = NewObject("s3", 0)
  /\ phase = "none"
  /\ call = NoCall
  /\ faults = 0
  /\ hist = Dirty
  /\ ctxDone = FALSE

\* The reader of an object that can shrink under it.
SpecLong == InitLong /\ [][Next]_vars

\* the client's getObject called directly, through the S3 adapter
CallS3GetObject(offset, count) ==
  \E r \in {getObject(remote, offset, count, NoFault)} :
      /\ call' = [NoCall EXCEPT !.op = "s3Client.getObject", !.err = r.err,
                                !.data = r.rsp.body.data,
                                !.fetches = <<Fetch(offset, count, r)>>]
      /\ UNCHANGED <<remote, obj, phase, faults, hist, ctxDone>>

\* the client's getObject called directly, through the blob adapter
CallBlobGetObject(offset, count) ==
  \E r \in {blobGetObject(remote, offset, count, NoFault)} :
      /\ call' = [NoCall EXCEPT !.op = "blobClient.getObject", !.err = r.err,
                                !.data = r.rsp.body.data,
                                !.fetches = <<Fetch(offset, count, r)>>]
      /\ UNCHANGED <<remote, obj, phase, faults, hist, ctxDone>>

NextClient ==
  \/ \E len \in 0..MaxLen : CallPut(len)
  \/ \E offset \in -1..MaxLen, count \in 0..MaxLen : CallS3GetObject(offset, count)
  \/ \E offset \in -1..MaxLen, count \in 0..MaxLen : CallBlobGetObject(offset, count)

\* The two implementations of the client interface, called with every
\* offset and count against every stored object.
SpecClient == Init /\ [][NextClient]_vars

\* "bytes " and the texts of a Content-Range header built on it
BytesUnit == <<"b", "y", "t", "e", "s", " ">>

\* Content-Range values of the form "bytes start-end/total" with
\* 0 <= start <= end < total
RangeTexts ==
  {FormatContentRange(t[1], t[2], t[3], "ok") :
     t \in {u \in (0..MaxTotal) \X (0..MaxTotal) \X (1..MaxTotal) :
              u[1] <= u[2] /\ u[2] < u[3]}}

\* texts that are not of that form, made from start, end and total
BrokenTexts(st, en, tot) ==
  { BytesUnit \o Itoa(st) \o <<"-">> \o Itoa(en),
    BytesUnit \o Itoa(st) \o <<"-">> \o Itoa(en) \o <<" ">> \o Itoa(tot),
    BytesUnit \o Itoa(st) \o <<"/">> \o Itoa(tot),
    BytesUnit \o <<"*", "/">> \o Itoa(tot),
    BytesUnit \o Itoa(st) \o <<"-">> \o Itoa(en) \o <<"/", "*">>,
    BytesUnit \o <<"a", "-">> \o Itoa(en) \o <<"/">> \o Itoa(tot),
    BytesUnit \o Itoa(st) \o <<"-", "x", "/">> \o Itoa(tot),
    BytesUnit \o Itoa(st) \o <<"-">> \o Itoa(en) \o <<"/">> \o Itoa(tot) \o <<"_">>,
    <<"b", "y", "t", "e", "s">> \o Itoa(st) \o <<"-">> \o Itoa(en) \o <<"/">> \o Itoa(tot),
    BytesUnit \o Itoa(st) \o <<"-">> \o Itoa(en) \o <<"/">> \o Itoa(tot)
      \o <<"/">> \o Itoa(tot),
    BytesUnit \o Itoa(st) \o <<"-">> \o Itoa(en) \o <<"/">> \o Itoa(tot)
      \o <<" ", "x">> }

\* malformed Content-Range values: a missing slash, a field that is no
\* number, fewer or more tokens than three
MalformedTexts ==
  UNION {BrokenTexts(t[1], t[2], t[3]) :
           t \in {u \in (0..MaxLen) \X (0..MaxLen) \X (1..MaxLen) :
                    u[1] <= u[2] /\ u[2] < u[3]}}

\* what the contentRange of a response may hold
HeaderTexts == RangeTexts \cup MalformedTexts \cup {NoHeader}

\* a response header is at hand
InitParse ==
  /\ remote = NoObject
  /\ obj = NewObject("s3", 0)
  /\ phase = "none"
  /\ call \in {[NoCall EXCEPT !.op = "header", !.data = h] : h \in HeaderTexts}
  /\ faults = 0
  /\ hist = Dirty
  /\ ctxDone = FALSE

\* parseContentRange(s) on the header at hand
CallParseContentRange ==
  /\ call.op = "header"
  /\ call' = [call EXCEPT !.op = "parseContentRange",
                          !.ret = parseContentRange(call.data)]
  /\ UNCHANGED <<remote, obj, phase, faults, hist, ctxDone>>

NextParse == CallParseContentRange

\* parseContentRange applied to well-formed and malformed header values
SpecParse == InitParse /\ [][NextParse]_vars

\* ----------------------------------------------------------------- claims

\* errors with which a fetch can fail
FetchErrors == {"NoSuchKey", "InvalidRange", "Transport", "Canceled", "Drain",
                "ParseContentRange", "LastModifiedChanged"}

\* The stored object is the one that was there at Open: an upload gives a
\* later last-modified time than that of the first upload, a deletion
\* leaves no object.
Untouched == remote.exists /\ remote.mod = 1

\* the absolute offset a Seek is asked for, from the state before it
Target(offset, whence) ==
  IF whence = SeekStart THEN offset
  ELSE IF whence = SeekCurrent THEN obj.rOffset + offset
  ELSE obj.size + offset

\* C1: Sequential read equivalence.  On a reader opened with chunk size
\* c >= 1 whose calls all succeeded against an untouched object, the bytes
\* returned by the Reads from offset 0 are at every moment the object's
\* bytes in order, once each, and when Read reports end-of-stream they are
\* the whole object, which is also what ReadFile returns.
C1_SequentialRead ==
  (phase = "opened" /\ hist.clean /\ hist.base = 0 /\ obj.bufLen >= 1) =>
    /\ hist.out = SubSeq(remote.data, 1, obj.rOffset)
    /\ (call.op = "Read" /\ call.err = EOF) =>
         /\ hist.out = remote.data
         /\ hist.out = ReadFileWithContext(obj.client, obj.bufLen, remote, NoFault).data

\* a three-byte object read to its end in chunks of two
C1_Witness ==
  /\ phase = "opened" /\ hist.clean /\ hist.base = 0
  /\ obj.bufLen = 2 /\ Len(remote.data) = 3
  /\ call.op = "Read" /\ call.err = EOF
  /\ hist.out = remote.data

\* C2: Seek-then-read.  Seek(k, Start) with k >= 0 returns k; after a
\* successful Seek to k on a reader whose calls all succeeded against an
\* untouched object, every successful Read returns at least one byte, the
\* bytes read are the object's from k on, at end-of-stream they are exactly
\* C[k:], and for k > len(C) every Read reports end-of-stream with zero
\* bytes and without a fetch.
C2_SeekThenRead ==
  /\ [](  (phase = "opened" /\ hist.clean) =>
            /\ (call.op = "Read" /\ call.err = Nil) => call.cnt >= 1
            /\ hist.base <= Len(remote.data) =>
                 hist.out = SubSeq(remote.data, hist.base + 1, obj.rOffset)
            /\ (call.op = "Read" /\ call.err = EOF /\ hist.base <= Len(remote.data)) =>
                 hist.out = SubSeq(remote.data, hist.base + 1, Len(remote.data))
            /\ (call.op = "Read" /\ hist.base > Len(remote.data)) =>
                 (call.err = EOF /\ call.cnt = 0 /\ call.fetches = <<>>
                    /\ hist.out = <<>>) )
  /\ [](phase = "opened" =>
          \A k \in 0..MaxSeek :
            /\ Seek(obj, k, SeekStart).err = Nil
            /\ Seek(obj, k, SeekStart).ret = k
            /\ Seek(obj, k, SeekStart).obj.rOffset = k)
  /\ [][ (call'.op = "Seek" /\ call'.err = Nil) =>
          call'.ret = obj'.rOffset ]_vars

\* after Open with chunk size 1 fetched one byte of three, Seek(2) and
\* reading to the end returned the last byte
C2_Witness ==
  /\ phase = "opened" /\ hist.clean /\ hist.base = 2
  /\ obj.bufLen = 1 /\ Len(remote.data) = 3
  /\ call.op = "Read" /\ call.err = EOF
  /\ hist.out = <<13>>

\* C3: Consistency guard.  Once the reader has recorded a lastModified, a
\* Read whose fetch is answered (by a request that meets no fault) with a
\* different lastModified fails with the consistency error, appends nothing
\* to the buffer and leaves size and modification time as they were.
C3_ConsistencyGuard ==
  [][ ( /\ call'.op = "Read"
        /\ faults' = faults
        /\ obj.modTime # ZeroTime
        /\ \E i \in 1..Len(call'.fetches) :
             /\ call'.fetches[i].err = Nil
             /\ call'.fetches[i].lastModified # obj.modTime )
      => ( /\ call'.err = "LastModifiedChanged"
           /\ obj'.buf = obj.buf
           /\ obj'.size = obj.size
           /\ obj'.modTime = obj.modTime ) ]_vars

\* C4: Failure atomicity.  When a fetch made by Open or Read fails, the
\* reader is exactly what it was before the call (for Open: as constructed).
C4_FailureAtomicity ==
  [][ ( /\ call'.op \in {"Open", "Read"}
        /\ call'.fetches # <<>>
        /\ call'.err \in FetchErrors )
      => obj' = (IF call'.op = "Open" THEN NewObject(obj'.client, obj'.bufLen) ELSE obj) ]_vars

\* C5: Zero-length object.  Open of an existing empty object, when no
\* request of it meets a fault and its context is not done, succeeds for every chunk size and leaves
\* size 0 and the reader complete; every Read of a reader of size 0 reports
\* end-of-stream without a fetch.
C5_ZeroLength ==
  /\ ( /\ call.op = "Open" /\ faults = 0 /\ ~ctxDone
       /\ remote.exists /\ Len(remote.data) = 0 )
     => ( /\ call.err = Nil /\ phase = "opened"
          /\ obj.size = 0 /\ obj.completelyLoaded /\ obj.buf = <<>> )
  /\ (phase = "opened" /\ obj.size = 0 /\ call.op = "Read")
     => (call.err = EOF /\ call.cnt = 0 /\ call.fetches = <<>>)

\* C6: Fallback and no-retry rule.  An Open or Read makes a second request
\* only after a first one at download offset 0 failed as range not
\* satisfiable; any other failed request is the only one of the call and
\* its error is the call's error.
C6_FallbackRule ==
  ( /\ call.op \in {"Open", "Read"}
    /\ call.fetches # <<>>
    /\ call.fetches[1].err # Nil
    /\ ~(call.fetches[1].err = "InvalidRange" /\ call.fetches[1].offset = 0) )
  => (Len(call.fetches) = 1 /\ call.err = call.fetches[1].err)

\* C7: Size known at open.  Right after a successful Open with chunk size
\* c >= 1, size is the total length of the stored object.
C7_SizeAtOpen ==
  (call.op = "Open" /\ call.err = Nil /\ obj.bufLen >= 1) =>
    obj.size = Len(remote.data)

\* Open with chunk size 1 of a three-byte object: one byte buffered
C7_Witness ==
  /\ call.op = "Open" /\ call.err = Nil /\ obj.bufLen = 1
  /\ Len(remote.data) = 3 /\ Len(obj.buf) = 1 /\ ~obj.completelyLoaded

\* C8: Idempotent re-read.  A Read of n bytes at an offset with at least n
\* bytes buffered makes no request, and what it returns are the buffered
\* bytes, which stay as they are.
C8_IdempotentReread ==
  [][ (call'.op = "Read" /\ Len(obj.buf) - obj.rOffset >= call'.n) =>
        /\ call'.fetches = <<>>
        /\ obj'.buf = obj.buf
        /\ call'.err = Nil =>
             call'.data = SubSeq(obj.buf, obj.rOffset + 1, obj.rOffset + call'.n) ]_vars

\* C9: ReadFile makes exactly one request, without a Range header, whatever
\* the chunk size; when it succeeds it returns the content last uploaded;
\* when the key was never uploaded or was deleted it fails, with the
\* store's not-found error unless the request itself failed.
C9_ReadFile ==
  call.op = "ReadFile" =>
    /\ Len(call.fetches) = 1
    /\ call.fetches[1].range = NoHeader
    /\ call.err = Nil => call.data = remote.data
    /\ ~remote.exists =>
         /\ call.err # Nil
         /\ call.fetches[1].err \notin {"Transport", "Canceled"} =>
              call.err = "NoSuchKey"

\* ReadFile on a file system with chunk size 1 returned a three-byte object
C9_Witness ==
  /\ call.op = "ReadFile" /\ call.n = 1 /\ call.err = Nil
  /\ Len(call.data) = 3 /\ remote.mod = 2

\* C10: Invalid seek.  A Seek whose whence is none of the three modes, or
\* whose target is negative, returns an error and changes nothing of the
\* reader.
C10_InvalidSeek ==
  /\ [](phase = "opened" =>
          \A a \in SeekArgs :
            ( \/ a[2] \notin {SeekStart, SeekCurrent, SeekEnd}
              \/ Target(a[1], a[2]) < 0 )
            => ( /\ Seek(obj, a[1], a[2]).err # Nil
                 /\ Seek(obj, a[1], a[2]).ret = 0
                 /\ Seek(obj, a[1], a[2]).obj = obj ))
  /\ [][ (call'.op = "Seek" /\ call'.err # Nil) =>
          (call'.ret = 0 /\ obj' = obj) ]_vars

\* a Seek was rejected for its negative target
C10_Witness ==
  /\ call.op = "Seek" /\ call.err = "NegativePosition" /\ obj.rOffset > 0

\* C11: Seek effect and frame.  On every open reader a Seek with one of the
\* three modes and a target that is not negative succeeds, also when the
\* target lies beyond the size; it sets the read offset to the target
\* (offset from Start, old read offset + offset from Current, size + offset
\* from End) and returns it.  Every Seek step makes no request, leaves the
\* store alone and changes nothing of the reader but the read offset, which
\* is what a successful Seek returns.
C11_SeekEffect ==
  /\ [](phase = "opened" =>
          \A a \in SeekArgs :
            (a[2] \in {SeekStart, SeekCurrent, SeekEnd} /\ Target(a[1], a[2]) >= 0)
            => Seek(obj, a[1], a[2]) =
                 [obj |-> [obj EXCEPT !.rOffset = Target(a[1], a[2])],
                  ret |-> Target(a[1], a[2]), err |-> Nil])
  /\ [][ call'.op = "Seek" =>
          /\ call'.fetches = <<>>
          /\ remote' = remote
          /\ obj' = [obj EXCEPT !.rOffset = obj'.rOffset]
          /\ call'.err = Nil => call'.ret = obj'.rOffset
          /\ call'.err # Nil => obj' = obj ]_vars

\* a Seek beyond the end of a partly buffered object was accepted
C11_Witness ==
  /\ call.op = "Seek" /\ call.err = Nil /\ call.ret = obj.rOffset
  /\ obj.rOffset > obj.size /\ obj.size >= 2
  /\ ~obj.completelyLoaded /\ Len(obj.buf) = 1

\* C12: Complete is terminal.  Once the complete flag of the reader is true
\* it stays true, and no Read or Seek made from then on issues a request.
C12_CompleteTerminal ==
  [][ obj.completelyLoaded =>
        /\ obj'.completelyLoaded
        /\ call'.op \in {"Read", "Seek"} => call'.fetches = <<>> ]_vars

\* a reader of a three-byte object opened with chunk size 1 became complete
\* and a Read asking for more than is left was then served from the buffer
C12_Witness ==
  /\ obj.completelyLoaded /\ obj.bufLen = 1 /\ obj.size = 3
  /\ call.op = "Read" /\ call.err = Nil /\ call.fetches = <<>>
  /\ call.n = 2 /\ call.cnt = 1

\* C13: Whole-object mode.  With chunk size 0 a successful Open has made
\* exactly one request, without a Range header, and leaves the reader
\* complete with the whole object buffered; no Read of that reader makes a
\* request.
C13_WholeObjectMode ==
  /\ (call.op = "Open" /\ call.err = Nil /\ obj.bufLen = 0) =>
       /\ Len(call.fetches) = 1
       /\ call.fetches[1].range = NoHeader
       /\ obj.completelyLoaded
       /\ obj.buf = remote.data
       /\ obj.size = Len(remote.data)
  /\ (phase = "opened" /\ obj.bufLen = 0) =>
       /\ obj.completelyLoaded
       /\ call.op = "Read" => call.fetches = <<>>

\* a three-byte object opened with chunk size 0, two bytes read
C13_Witness ==
  /\ phase = "opened" /\ obj.bufLen = 0 /\ Len(obj.buf) = 3
  /\ call.op = "Read" /\ call.err = Nil /\ call.cnt = 2

\* C14: In every reachable state where the complete flag is true the
\* download offset equals the size, however completion was reached (chunk
\* fetches, a full-remainder fetch, or a whole-object fetch).
C14_CompleteOffset ==
  obj.completelyLoaded => obj.dlOffset = obj.size

\* C15: Contiguous growing prefix.  While the stored object C is the one
\* that was opened, no call on the reader makes the buffer shorter, the
\* buffer is at least as long as the download offset, and the buffer is a
\* prefix of C: buffer[i] = C[i] for every position i of the buffer.
C15_ContiguousPrefix ==
  [][ (phase' = "opened" /\ Untouched') =>
        /\ Len(obj'.buf) >= Len(obj.buf)
        /\ Len(obj'.buf) >= obj'.dlOffset
        /\ Len(obj'.buf) <= Len(remote'.data)
        /\ \A i \in 1..Len(obj'.buf) : obj'.buf[i] = remote'.data[i] ]_vars

\* C16: Session metadata is write-once.  The size and last-modified time
\* that the first successful fetch (that of Open) recorded are not changed
\* by any later fetch of the reader (here: one whose request meets no
\* fault), also when the stored object was replaced by one of another
\* length or time in between.
C16_MetadataWriteOnce ==
  [][ (phase = "opened" /\ call'.op = "Read" /\ faults' = faults) =>
        (obj'.size = obj.size /\ obj'.modTime = obj.modTime) ]_vars

\* the Range header of a request for the bytes first to last
RangeOf(first, last) ==
  <<"b", "y", "t", "e", "s", "=">> \o Itoa(first) \o <<"-">> \o Itoa(last)

\* C17: Fetch decision of Read.  A Read of n bytes on a reader that is not
\* complete, with read offset < size and chunk size c >= 1, makes one
\* request for the bytes downloadOffset to size-1 if and only if the read
\* offset is beyond the download offset; otherwise it makes one request for
\* the bytes downloadOffset to downloadOffset+c-1 if and only if fewer than
\* n bytes are buffered at and after the read offset; otherwise it makes no
\* request.
C17_FetchDecision ==
  [][ ( /\ call'.op = "Read"
        /\ ~obj.completelyLoaded
        /\ obj.rOffset < obj.size
        /\ obj.bufLen >= 1 )
      => IF obj.rOffset > obj.dlOffset
         THEN /\ Len(call'.fetches) = 1
              /\ call'.fetches[1].range = RangeOf(obj.dlOffset, obj.size - 1)
         ELSE IF Len(obj.buf) - obj.rOffset < call'.n
         THEN /\ Len(call'.fetches) = 1
              /\ call'.fetches[1].range =
                   RangeOf(obj.dlOffset, obj.dlOffset + obj.bufLen - 1)
         ELSE call'.fetches = <<>> ]_vars

\* C18: No re-fetch.  Every ranged request of an Open or Read starts at the
\* download offset the reader has at that moment and asks for no byte that
\* the buffer already holds; when it succeeds, the download offset moves
\* beyond the range asked for or the reader is complete, so that the ranges
\* asked for are pairwise disjoint.
C18_NoRefetch ==
  [][ call'.op \in {"Open", "Read"} =>
        \A i \in 1..Len(call'.fetches) :
          call'.fetches[i].range # NoHeader =>
            /\ call'.fetches[i].offset =
                 (IF call'.op = "Open" THEN 0 ELSE obj.dlOffset)
            /\ call'.fetches[i].offset >=
                 (IF call'.op = "Open" THEN 0 ELSE Len(obj.buf))
            /\ call'.err = Nil =>
                 \/ obj'.dlOffset > call'.fetches[i].count
                 \/ obj'.completelyLoaded ]_vars

\* C19: A single Read makes at most one request to the store; the bytes it
\* returns are bytes buffered at and after the read offset once that
\* request is done, at most as many as asked for, and the read offset
\* advances by exactly the number of bytes returned.
C19_SingleFetch ==
  [][ call'.op = "Read" =>
        /\ Len(call'.fetches) <= 1
        /\ call'.cnt <= call'.n
        /\ call'.cnt >= 1 => obj.rOffset + call'.cnt <= Len(obj'.buf)
        /\ Len(call'.data) = call'.cnt
        /\ call'.data = SubSeq(obj'.buf, obj.rOffset + 1, obj.rOffset + call'.cnt)
        /\ obj'.rOffset = obj.rOffset + call'.cnt ]_vars

\* a Read of two bytes fetched one chunk of one byte and returned that byte
C19_Witness ==
  /\ call.op = "Read" /\ call.err = Nil /\ call.n = 2 /\ call.cnt = 1
  /\ Len(call.fetches) = 1 /\ ~obj.completelyLoaded /\ obj.bufLen = 1

\* C20: Malformed range response.  When a ranged request of an Open or Read
\* is answered without error but the answer's Content-Range is absent or
\* does not parse as "bytes start-end/total", the call returns the parse
\* error and buffer, download offset, size and last-modified time are what
\* they were before the fetch (for Open: those of a new reader).
C20_MalformedRange ==
  [][ ( /\ call'.op \in {"Open", "Read"}
        /\ \E i \in 1..Len(call'.fetches) :
             /\ call'.fetches[i].range # NoHeader
             /\ call'.fetches[i].err = Nil
             /\ ~parseContentRange(call'.fetches[i].contentRange).ok )
      => ( /\ call'.err = "ParseContentRange"
           /\ obj' = (IF call'.op = "Open" THEN NewObject(obj'.client, obj'.bufLen) ELSE obj) ) ]_vars

\* C21: Adapter range shaping.  For every offset >= 0 and inclusive end
\* e >= offset, getObject(key, offset, e) of either adapter asks the store
\* for exactly the bytes offset..e of the object, clipped at its end (what
\* comes back when offset lies within the object are those bytes); for a
\* negative offset either adapter asks for the whole object without a
\* range.
C21_RangeShaping ==
  (call.op \in {"s3Client.getObject", "blobClient.getObject"} /\ remote.exists) =>
    /\ call.fetches[1].offset < 0 =>
         /\ call.fetches[1].range = NoHeader
         /\ call.err = Nil
         /\ call.data = remote.data
    /\ ( /\ call.fetches[1].offset >= 0
         /\ call.fetches[1].count >= call.fetches[1].offset
         /\ call.fetches[1].offset < Len(remote.data) )
       => /\ call.err = Nil
          /\ call.data = SubSeq(remote.data, call.fetches[1].offset + 1,
                                Min(call.fetches[1].count, Len(remote.data) - 1) + 1)

\* C22: Read progress.  On an open reader a Read with a destination of at
\* least one byte, made at a read offset below the size, returns an error
\* or at least one byte, never zero bytes without an error (here: on a run
\* none of whose requests met a fault); so Reads that do not fail reach
\* end-of-stream.
C22_ReadProgress ==
  [][ ( /\ call'.op = "Read"
        /\ faults' = 0
        /\ call'.n >= 1
        /\ obj.rOffset < obj.size )
      => (call'.err \notin {Nil, "panic"} \/ call'.cnt >= 1) ]_vars

\* C23: Read never indexes past the buffer.  Whenever a Read has come to
\* copy bytes out, the read offset is at most the length of the buffer,
\* also after a forward Seek followed by a full-remainder fetch and also
\* when the stored object was replaced by a shorter one between the
\* reader's fetches: every Read ends with bytes, end-of-stream or an error,
\* never with a crash.
C23_ReadInBounds ==
  call.op = "Read" =>
    /\ call.err # "panic"
    /\ phase # "crashed"
    /\ call.err = Nil => obj.rOffset <= Len(obj.buf)

\* C24: Content-range round trip.  For all integers 0 <= start <= end <
\* total, parsing "bytes start-end/total" gives (start, end, total) and
\* ok = true; an absent value and a malformed text (a missing slash, a
\* field that is no number, a wrong number of tokens) give ok = false.
C24_ContentRangeRoundTrip ==
  call.op = "parseContentRange" =>
    /\ \A st \in 0..MaxTotal, en \in 0..MaxTotal, tot \in 1..MaxTotal :
         (st <= en /\ en < tot /\ call.data = FormatContentRange(st, en, tot, "ok"))
         => call.ret = [start |-> st, end |-> en, total |-> tot, ok |-> TRUE]
    /\ call.data \in MalformedTexts \cup {NoHeader} => ~call.ret.ok

====
